---- MODULE Spec2Model ----
(***************************************************************************)
(* The MovementTracker component (src/unnamed/part_001): its React state,  *)
(* its refs, the closures its handlers capture, and the listeners it       *)
(* registers on the Bluetooth device and characteristic.                   *)
(*                                                                         *)
(* Numbers.  Angles and seconds are fixed-point integers in thousandths    *)
(* (1000 = one degree, 1000 = one second); toFixed(2) yields hundredths.   *)
(*                                                                         *)
(* React.  A state setter takes effect on the state variables at once; a   *)
(* handler, however, reads state only through the closure of the render    *)
(* that created it.  `view` is the last committed render; Render commits   *)
(* a new one and runs the effect that copies mode into modeRef.  A         *)
(* listener handed to addEventListener keeps the closure of the render in  *)
(* which connectBLE was clicked.                                           *)
(***************************************************************************)
EXTENDS Integers, Sequences, FiniteSets

VARIABLES
  mode,                \* useState 'idle' | 'connecting' | 'calibrating' | 'tracking'
  calibration,         \* useState Calibration {x, y, z}
  calibrationSamples,  \* useState Measurement[]
  measurements,        \* useState Measurement[] (the timeline)
  current,             \* useState currentX, currentY, currentZ
  finalStats,          \* useState Stats | null
  error,               \* useState string | null
  calibrationProgress, \* useState number
  debugMessages,       \* useState string[]
  squatPhases,         \* useState SquatPhases
  modeRef,             \* useRef, written by the effect on [mode]
  measurementCountRef, \* useRef number
  view,                \* the state captured by the closures of the last render
  connectClosure,      \* the closure of a connectBLE call that is awaiting
  motionListener,      \* listener on the current characteristic
  disconnectListeners, \* listeners on the device, in registration order
  connected,           \* device.gatt.connected
  beep,                \* frequency played by the last step, 0 when none
  measurementsId,      \* identity of the measurements array (setMeasurements calls)
  irregular,           \* deliveries out of the ordinary so far (see MaxIrregular)
  tracked,             \* samples appended to a timeline so far
  sessions,            \* start requests so far
  appended             \* messages handed to addDebugMessage, kept by SpecLog

vars == << mode, calibration, calibrationSamples, measurements, current,
           finalStats, error, calibrationProgress, debugMessages, squatPhases,
           modeRef, measurementCountRef, view, connectClosure, motionListener,
           disconnectListeners, connected, beep, measurementsId, irregular,
           tracked, sessions, appended >>

----------------------------------------------------------------------------
(* Bounds of the exploration *)

MaxSessions == 2      \* start requests
MaxTrack == 4         \* measurements appended, all sessions together
MaxIrregular == 1     \* deliveries out of the ordinary: a payload that is not a
                      \* decodable sample, or one delivered before the state
                      \* changes so far were rendered
StillSamples == 9     \* leading calibration samples taken in the rest pose

(* Program constants *)

REQUIRED_CALIBRATION_SAMPLES == 10
SAMPLE_PERIOD == 50   \* 0.05 s, in thousandths of a second
LOG_SIZE == 5

----------------------------------------------------------------------------
(* Values *)

None == << >>
Some(v) == << v >>

Vec(x, y, z) == [x |-> x, y |-> y, z |-> z]

Measurement(x, y, z, t) == [x |-> x, y |-> y, z |-> z, timestamp |-> t]

RestPose == Vec(1000, 2000, 3000)

RawSamples == { RestPose, Vec(4000, 5000, 6000) }

\* The value of a field the decoded object lacks (undefined) and of every
\* sum, difference or quotient it enters (NaN).
NaN == 999999999

\* What a notification carries: a decodable sample, valid JSON that lacks
\* the field y, text JSON.parse rejects, or no DataView at all.
Payloads ==
  [kind : {"sample"}, data : RawSamples]
    \cup { [kind |-> "partial", data |-> Vec(4000, NaN, 6000)],
           [kind |-> "garbage", data |-> Vec(0, 0, 0)],
           [kind |-> "empty", data |-> Vec(0, 0, 0)] }

\* JavaScript's +, - and / on numbers that may be NaN.
Plus(a, b) == IF a = NaN \/ b = NaN THEN NaN ELSE a + b
Minus(a, b) == IF a = NaN \/ b = NaN THEN NaN ELSE a - b
Quot(a, n) == IF a = NaN THEN NaN ELSE a \div n

Min(a, b) == IF a < b THEN a ELSE b
Max(a, b) == IF a > b THEN a ELSE b
Abs(a) == IF a < 0 THEN -a ELSE a

\* Math.sqrt on fixed-point values: the largest r with r * r <= n.
RECURSIVE SqrtSearch(_, _, _)
SqrtSearch(n, lo, hi) ==
  IF lo >= hi THEN lo
  ELSE LET mid == (lo + hi + 1) \div 2
       IN IF mid * mid <= n THEN SqrtSearch(n, mid, hi)
                            ELSE SqrtSearch(n, lo, mid - 1)

Sqrt(n) == SqrtSearch(n, 0, Min(n, 46340))

\* Number.prototype.toFixed(2): thousandths rounded to the nearest hundredth.
toFixed2(v) == IF v >= 0 THEN (v + 5) \div 10 ELSE -((5 - v) \div 10)

\* Array.prototype.reduce((sum, sample) => sum + sample.axis, 0)
RECURSIVE SumX(_)
SumX(s) == IF s = << >> THEN 0 ELSE Plus(Head(s).x, SumX(Tail(s)))
RECURSIVE SumY(_)
SumY(s) == IF s = << >> THEN 0 ELSE Plus(Head(s).y, SumY(Tail(s)))
RECURSIVE SumZ(_)
SumZ(s) == IF s = << >> THEN 0 ELSE Plus(Head(s).z, SumZ(Tail(s)))

----------------------------------------------------------------------------
(* Pure parts of the component *)

\* A plausible slip: slice(0, 5) for slice(-5), which keeps the oldest five.
addDebugMessage_KeepsOldest(log, m) ==
  LET newMessages == Append(log, m)
  IN SubSeq(newMessages, 1, Min(Len(newMessages), LOG_SIZE))

\* addDebugMessage: append, keep the last five.  An entry is the fixed part of
\* its text; the wall-clock prefix and the interpolated numbers are left out.
addDebugMessage(log, m) ==
  LET newMessages == Append(log, m)
      n == Len(newMessages)
  IN IF n <= LOG_SIZE THEN newMessages
     ELSE SubSeq(newMessages, n - LOG_SIZE + 1, n)

InitialSquatPhases == [bottomPoint |-> None, maxDepth |-> 0]

\* A plausible slip: >= for >, so that a later candidate of equal magnitude
\* replaces the first.
RECURSIVE ScanSquat_TiesOverwrite(_, _, _)
ScanSquat_TiesOverwrite(data, i, acc) ==
  IF i > Len(data) - 1 THEN acc
  ELSE LET prev == data[i - 1].z
           curr == data[i].z
           next == data[i + 1].z
       IN IF curr < prev /\ curr < next /\ Abs(curr) >= Abs(acc.maxDepth)
          THEN ScanSquat_TiesOverwrite(data, i + 1,
                 [bottomPoint |-> Some(data[i].timestamp), maxDepth |-> curr])
          ELSE ScanSquat_TiesOverwrite(data, i + 1, acc)

\* The loop of detectSquatPhases from index i (1-based) on, acc = the running
\* {bottomPoint, maxDepth}.
RECURSIVE ScanSquat(_, _, _)
ScanSquat(data, i, acc) ==
  IF i > Len(data) - 1 THEN acc
  ELSE LET prev == data[i - 1].z
           curr == data[i].z
           next == data[i + 1].z
       IN IF curr < prev /\ curr < next /\ Abs(curr) > Abs(acc.maxDepth)
          THEN ScanSquat(data, i + 1,
                         [bottomPoint |-> Some(data[i].timestamp), maxDepth |-> curr])
          ELSE ScanSquat(data, i + 1, acc)

\* A plausible slip: the depth stored as a magnitude.
detectSquatPhases_Magnitude(data) ==
  IF Len(data) < 3 THEN None
  ELSE LET r == ScanSquat(data, 2, InitialSquatPhases)
       IN Some([r EXCEPT !.maxDepth = Abs(@)])

\* detectSquatPhases: null (None) below three measurements, else the result.
detectSquatPhases(data) ==
  IF Len(data) < 3 THEN None
  ELSE Some(ScanSquat(data, 2, InitialSquatPhases))

\* A plausible slip: the vertical axis counted in.
horizontalDeviation_WithY(m) == Sqrt(m.x * m.x + m.y * m.y + m.z * m.z)

horizontalDeviation(m) == Sqrt(m.x * m.x + m.z * m.z)

\* The forEach of calculateFinalStats: acc = {maxDeviation, totalDeviation}.
RECURSIVE ScanDeviation(_, _)
ScanDeviation(ms, acc) ==
  IF ms = << >> THEN acc
  ELSE ScanDeviation(Tail(ms),
         [maxDeviation |-> Max(acc.maxDeviation, horizontalDeviation(Head(ms))),
          totalDeviation |-> acc.totalDeviation + horizontalDeviation(Head(ms))])

\* The stats object calculateFinalStats builds from a non-empty timeline.
StatsOf(ms) ==
  LET acc == ScanDeviation(ms, [maxDeviation |-> 0, totalDeviation |-> 0])
      duration == ms[Len(ms)].timestamp
  IN [maxDeviation |-> toFixed2(acc.maxDeviation),
      avgDeviation |-> toFixed2(acc.totalDeviation \div Len(ms)),
      duration |-> toFixed2(duration),
      samples |-> Len(ms)]

\* The baseline handleCalibrationData computes from the buffer.
Average(newSamples) ==
  Vec(Quot(SumX(newSamples), Len(newSamples)),
      Quot(SumY(newSamples), Len(newSamples)),
      Quot(SumZ(newSamples), Len(newSamples)))

----------------------------------------------------------------------------
(* Handlers that finalize.  They act on the part of the state they write:  *)
(* st = [finalStats, squatPhases, mode, error, debugMessages].             *)

Store ==
  [finalStats |-> finalStats, squatPhases |-> squatPhases, mode |-> mode,
   error |-> error, debugMessages |-> debugMessages]

Log(st, text) ==
  [st EXCEPT !.debugMessages = addDebugMessage(@, text)]

\* calculateFinalStats of the render whose timeline is ms.
calculateFinalStats(st, ms) ==
  IF Len(ms) = 0 THEN st
  ELSE Log([st EXCEPT !.finalStats = Some(StatsOf(ms))],
           "Session complete")

\* if (measurements.length > 0) { calculateFinalStats(); phases = ...;
\*   if (phases) setSquatPhases(phases) }
Finalize(st, ms) ==
  IF Len(ms) > 0
  THEN LET s1 == calculateFinalStats(st, ms)
           phases == detectSquatPhases(ms)
       IN IF phases # None THEN [s1 EXCEPT !.squatPhases = phases[1]] ELSE s1
  ELSE st

\* handleDisconnect of the render whose timeline is cl.measurements.
handleDisconnect(st, cl) ==
  LET s1 == Finalize(Log(st, "Device disconnected"), cl.measurements)
  IN [s1 EXCEPT !.mode = "idle", !.error = Some("Device disconnected")]

\* The 'gattserverdisconnected' event: every listener of the device, in order.
RECURSIVE FireDisconnected(_, _)
FireDisconnected(st, listeners) ==
  IF listeners = << >> THEN st
  ELSE FireDisconnected(handleDisconnect(st, Head(listeners)), Tail(listeners))

----------------------------------------------------------------------------
(* The state machine *)

\* What the closures of a render capture.
Snapshot ==
  [mode |-> mode, measurements |-> measurements,
   measurementsId |-> measurementsId, calibration |-> calibration]

\* State changes await their render.
Unrendered == view # Snapshot \/ modeRef # mode

Init ==
  /\ mode = "idle"
  /\ calibration = Vec(0, 0, 0)
  /\ calibrationSamples = << >>
  /\ measurements = << >>
  /\ current = Vec(0, 0, 0)
  /\ finalStats = None
  /\ error = None
  /\ calibrationProgress = 0
  /\ debugMessages = << >>
  /\ squatPhases = InitialSquatPhases
  /\ modeRef = "idle"
  /\ measurementCountRef = 0
  /\ view = [mode |-> "idle", measurements |-> << >>, measurementsId |-> 0,
             calibration |-> Vec(0, 0, 0)]
  /\ connectClosure = None
  /\ motionListener = None
  /\ disconnectListeners = << >>
  /\ connected = FALSE
  /\ beep = 0
  /\ measurementsId = 0
  /\ irregular = 0
  /\ tracked = 0
  /\ sessions = 0
  /\ appended = << >>

\* React commits a render: handlers get fresh closures, then the effect on
\* [mode] stores mode in modeRef.
Render ==
  /\ Unrendered
  /\ view' = Snapshot
  /\ modeRef' = mode
  /\ beep' = 0
  /\ UNCHANGED << mode, calibration, calibrationSamples, measurements, current,
                  finalStats, error, calibrationProgress, debugMessages,
                  squatPhases, measurementCountRef, connectClosure,
                  motionListener, disconnectListeners, connected,
                  measurementsId, irregular, tracked, sessions,
                  appended >>

\* connectBLE up to its first await: the "Connect M5Stick" button, which the
\* render shows in idle mode.
ConnectStart ==
  /\ view.mode = "idle"
  /\ connectClosure = None
  /\ sessions < MaxSessions
  /\ mode' = "connecting"
  /\ error' = None
  /\ calibrationSamples' = << >>
  /\ calibrationProgress' = 0
  /\ measurementCountRef' = 0
  /\ debugMessages' = addDebugMessage(debugMessages, "Starting BLE connection...")
  /\ connectClosure' = Some([calibration |-> view.calibration,
                             measurements |-> view.measurements,
                             measurementsId |-> view.measurementsId])
  /\ sessions' = sessions + 1
  /\ beep' = 0
  /\ UNCHANGED << calibration, measurements, current, finalStats, squatPhases,
                  modeRef, view, motionListener, disconnectListeners, connected,
                  measurementsId, irregular, tracked,
                  appended >>

\* addEventListener: a function already registered is not registered again.
addEventListener(listeners, cl) ==
  IF \E i \in 1..Len(listeners) : listeners[i] = cl THEN listeners
  ELSE Append(listeners, cl)

RECURSIVE LogAll(_, _)
LogAll(log, texts) ==
  IF texts = << >> THEN log
  ELSE LogAll(addDebugMessage(log, Head(texts)), Tail(texts))

ConnectProgress ==
  << "Device selected, connecting to GATT server...",
     "Connected to GATT server, getting service...",
     "Starting notifications..." >>

\* connectBLE from the device chooser to its end: the notification channel
\* is ready, the two listeners are registered with the closures of the
\* render in which the button was clicked.
ConnectReady ==
  /\ connectClosure # None
  /\ LET cl == connectClosure[1]
     IN /\ motionListener' = Some([calibration |-> cl.calibration])
        /\ disconnectListeners' =
             addEventListener(disconnectListeners,
                              [measurements |-> cl.measurements,
                               measurementsId |-> cl.measurementsId])
  /\ connected' = TRUE
  /\ debugMessages' =
       LogAll(debugMessages, ConnectProgress \o << "Starting calibration at" >>)
  /\ mode' = "calibrating"
  /\ beep' = 440
  /\ connectClosure' = None
  /\ UNCHANGED << calibration, calibrationSamples, measurements, current,
                  finalStats, error, calibrationProgress, squatPhases, modeRef,
                  measurementCountRef, view, measurementsId, irregular, tracked,
                  sessions,
                  appended >>

\* connectBLE when one of its awaits rejects, after `stage` progress messages.
ConnectFail ==
  /\ connectClosure # None
  /\ \E stage \in 0..Len(ConnectProgress) :
       debugMessages' =
         LogAll(debugMessages,
                SubSeq(ConnectProgress, 1, stage) \o << "Connection failed" >>)
  /\ error' = Some("Connection failed")
  /\ mode' = "idle"
  /\ connectClosure' = None
  /\ beep' = 0
  /\ UNCHANGED << calibration, calibrationSamples, measurements, current,
                  finalStats, calibrationProgress, squatPhases, modeRef,
                  measurementCountRef, view, motionListener,
                  disconnectListeners, connected, measurementsId, irregular,
                  tracked, sessions,
                  appended >>

\* JSON.parse returns an object for the payload.
Decoded(p) == p.kind \in {"sample", "partial"}

\* Inputs the exploration feeds: the first StillSamples samples of a
\* calibration are the rest pose; the budgets of the bounds are kept.
Irregular(p) == p.kind # "sample" \/ Unrendered

Deliverable(p) ==
  /\ Irregular(p) => irregular < MaxIrregular
  /\ (p.kind = "sample" /\ modeRef = "calibrating"
        /\ Len(calibrationSamples) < StillSamples) => p.data = RestPose
  /\ (Decoded(p) /\ modeRef = "tracking") => tracked < MaxTrack

\* A plausible slip: the transition waits for one sample more.
CalibrationDone_Late(newSamples) ==
  Len(newSamples) > REQUIRED_CALIBRATION_SAMPLES

\* if (newSamples.length >= REQUIRED_CALIBRATION_SAMPLES)
CalibrationDone(newSamples) ==
  Len(newSamples) >= REQUIRED_CALIBRATION_SAMPLES

\* handleCalibrationData, with the updater of setCalibrationSamples.
CalibrationData(data) ==
  LET elapsedTimeSeconds == measurementCountRef * SAMPLE_PERIOD
      newSamples == Append(calibrationSamples,
                           Measurement(data.x, data.y, data.z, elapsedTimeSeconds))
      progress == (Len(newSamples) * 100) \div REQUIRED_CALIBRATION_SAMPLES
      log1 == addDebugMessage(debugMessages, "Calibration sample")
      done == CalibrationDone(newSamples)
  IN /\ measurementCountRef' = measurementCountRef + 1
     /\ calibrationSamples' = newSamples
     /\ calibrationProgress' = Min(progress, 100)
     /\ IF done
        THEN /\ calibration' = Average(newSamples)
             /\ mode' = "tracking"
             /\ measurements' = << >>
             /\ measurementsId' = measurementsId + 1
             /\ debugMessages' = addDebugMessage(log1, "Calibration complete!")
        ELSE /\ debugMessages' = log1
             /\ UNCHANGED << calibration, mode, measurements, measurementsId >>
     /\ UNCHANGED << current, error >>

\* A plausible slip: the tracking branch also feeds the calibration buffer.
TrackingData_AlsoBuffers(data, cal) ==
  LET calibratedX == Minus(data.x, cal.x)
      calibratedY == Minus(data.y, cal.y)
      calibratedZ == Minus(data.z, cal.z)
      elapsedTimeSeconds == measurementCountRef * SAMPLE_PERIOD
  IN /\ current' = Vec(calibratedX, calibratedY, calibratedZ)
     /\ measurementCountRef' = measurementCountRef + 1
     /\ measurements' = Append(measurements,
          Measurement(calibratedX, calibratedY, calibratedZ, elapsedTimeSeconds))
     /\ measurementsId' = measurementsId + 1
     /\ calibrationSamples' = Append(calibrationSamples,
          Measurement(data.x, data.y, data.z, elapsedTimeSeconds))
     /\ debugMessages' = addDebugMessage(debugMessages, "Data")
     /\ UNCHANGED << calibration, calibrationProgress, mode, error >>

\* The tracking branch of handleMotionData; cal is the calibration the
\* listener's closure holds.
TrackingData(data, cal) ==
  LET calibratedX == Minus(data.x, cal.x)
      calibratedY == Minus(data.y, cal.y)
      calibratedZ == Minus(data.z, cal.z)
      elapsedTimeSeconds == measurementCountRef * SAMPLE_PERIOD
  IN /\ current' = Vec(calibratedX, calibratedY, calibratedZ)
     /\ measurementCountRef' = measurementCountRef + 1
     /\ measurements' = Append(measurements,
          Measurement(calibratedX, calibratedY, calibratedZ, elapsedTimeSeconds))
     /\ measurementsId' = measurementsId + 1
     /\ debugMessages' = addDebugMessage(debugMessages, "Data")
     /\ UNCHANGED << calibration, calibrationSamples, calibrationProgress, mode,
                     error >>

\* A plausible slip: the counter of the timestamps advances on a payload
\* that is then rejected.
ParseError_Counts ==
  /\ debugMessages' = addDebugMessage(debugMessages, "Error parsing data")
  /\ error' = Some("Error parsing data")
  /\ measurementCountRef' = measurementCountRef + 1
  /\ UNCHANGED << calibration, calibrationSamples, calibrationProgress, mode,
                  measurements, measurementsId, current >>

\* The catch of handleMotionData: JSON.parse threw.
ParseError ==
  /\ debugMessages' = addDebugMessage(debugMessages, "Error parsing data")
  /\ error' = Some("Error parsing data")
  /\ UNCHANGED << calibration, calibrationSamples, calibrationProgress, mode,
                  measurements, measurementsId, current, measurementCountRef >>

\* A plausible slip: the statistics are refreshed with every measurement.
ResultsUntouched_LiveStats ==
  /\ finalStats' = IF measurements' # measurements /\ measurements' # << >>
                   THEN Some(StatsOf(measurements'))
                   ELSE finalStats
  /\ UNCHANGED squatPhases

\* handleMotionData and handleCalibrationData call neither setFinalStats
\* nor setSquatPhases.
ResultsUntouched == UNCHANGED << finalStats, squatPhases >>

\* handleMotionData, called by the characteristic with payload p.  (Its
\* writes to lastRawData and lastParsedData, which only the debug panel
\* shows, are left out.)
MotionData(p) ==
  /\ motionListener # None
  /\ Deliverable(p)
  /\ irregular' = IF Irregular(p) THEN irregular + 1 ELSE irregular
  /\ tracked' = IF Decoded(p) /\ modeRef = "tracking" THEN tracked + 1
                ELSE tracked
  /\ beep' = 0
  /\ IF p.kind = "empty"
     THEN /\ debugMessages' = addDebugMessage(debugMessages, "Received empty dataView")
          /\ UNCHANGED << calibration, calibrationSamples, calibrationProgress,
                          mode, measurements, measurementsId, current, error,
                          measurementCountRef >>
     ELSE IF p.kind = "garbage" THEN ParseError
     ELSE IF modeRef = "calibrating" THEN CalibrationData(p.data)
     ELSE IF modeRef = "tracking"
     THEN TrackingData(p.data, motionListener[1].calibration)
     ELSE UNCHANGED << calibration, calibrationSamples, calibrationProgress,
                       mode, measurements, measurementsId, current, error,
                       debugMessages, measurementCountRef >>
  /\ ResultsUntouched
  /\ UNCHANGED << modeRef, view, connectClosure, motionListener,
                  disconnectListeners, connected, sessions, appended >>

Sample == \E p \in Payloads : MotionData(p)

\* Writes a store back to the state.
Commit(st) ==
  /\ finalStats' = st.finalStats
  /\ squatPhases' = st.squatPhases
  /\ mode' = st.mode
  /\ error' = st.error
  /\ debugMessages' = st.debugMessages

\* The transport drops the connection: the device fires
\* 'gattserverdisconnected' at its listeners.
Disconnect ==
  /\ connected
  /\ connected' = FALSE
  /\ Commit(FireDisconnected(Store, disconnectListeners))
  /\ beep' = 0
  /\ UNCHANGED << calibration, calibrationSamples, measurements, current,
                  calibrationProgress, modeRef, measurementCountRef, view,
                  connectClosure, motionListener, disconnectListeners,
                  measurementsId, irregular, tracked, sessions,
                  appended >>

\* A plausible slip: the listeners of the disconnect event run after the
\* stop handler has finalized, not inside gatt.disconnect().
stopTracking_EventLast(st, ms) ==
  LET s0 == Log(st, "Stopping tracking...")
      s1 == [Finalize(s0, ms) EXCEPT !.mode = "idle"]
  IN IF connected THEN FireDisconnected(s1, disconnectListeners) ELSE s1

\* The body of stopTracking on the store st, ms being the timeline of the
\* render that made the handler.  gatt.disconnect() fires the event before
\* it returns.
stopTracking(st, ms) ==
  LET s0 == Log(st, "Stopping tracking...")
      s1 == IF connected THEN FireDisconnected(s0, disconnectListeners) ELSE s0
      s2 == Finalize(s1, ms)
  IN [s2 EXCEPT !.mode = "idle"]

\* stopTracking: the "Stop Tracking" button, which the render shows in
\* tracking mode.
StopTracking ==
  /\ view.mode = "tracking"
  /\ Commit(stopTracking(Store, view.measurements))
  /\ connected' = FALSE
  /\ beep' = 880
  /\ UNCHANGED << calibration, calibrationSamples, measurements, current,
                  calibrationProgress, modeRef, measurementCountRef, view,
                  connectClosure, motionListener, disconnectListeners,
                  measurementsId, irregular, tracked, sessions,
                  appended >>

Next ==
  \/ Render
  \/ ConnectStart
  \/ ConnectReady
  \/ ConnectFail
  \/ Sample
  \/ Disconnect
  \/ StopTracking

Spec == Init /\ [][Next]_vars

----------------------------------------------------------------------------
(* The analysis of a finished timeline, on a wider range of timelines.     *)
(* Every behaviour starts in a first session that is tracking: ten         *)
(* rest-pose samples calibrated it, then the samples of `raws` were        *)
(* delivered and rendered.  The listener of a first session holds the      *)
(* calibration {0, 0, 0} of the render in which Connect was clicked.       *)

MaxAnalysisLen == 5   \* measurements of an analysed timeline

AnalysisSamples ==
  { Vec(0, 0, 0), Vec(0, 0, -1000), Vec(0, 0, -5000), Vec(0, 0, -2000),
    Vec(3000, 7000, 4000), Vec(1000, 0, 2000) }

AnalysisInputs ==
  UNION { [1..n -> AnalysisSamples] : n \in 0..MaxAnalysisLen }

\* The timeline the tracking branch builds from raws with calibration cal,
\* the counter being at `first` when the first of them arrives.
TimelineOf(raws, cal, first) ==
  [i \in 1..Len(raws) |->
     Measurement(raws[i].x - cal.x, raws[i].y - cal.y, raws[i].z - cal.z,
                 (first + i - 1) * SAMPLE_PERIOD)]

AnalysisInit ==
  \E raws \in AnalysisInputs :
    LET n == Len(raws)
        stale == Vec(0, 0, 0)
        timeline == TimelineOf(raws, stale, REQUIRED_CALIBRATION_SAMPLES)
    IN /\ mode = "tracking"
       /\ calibration = RestPose
       /\ calibrationSamples =
            TimelineOf([i \in 1..REQUIRED_CALIBRATION_SAMPLES |-> RestPose],
                       Vec(0, 0, 0), 0)
       /\ measurements = timeline
       /\ current = IF n = 0 THEN Vec(0, 0, 0)
                    ELSE Vec(timeline[n].x, timeline[n].y, timeline[n].z)
       /\ finalStats = None
       /\ error = None
       /\ calibrationProgress = 100
       /\ debugMessages =
            LogAll(<< >>, [i \in 1..LOG_SIZE |-> "Calibration sample"]
                            \o << "Calibration complete!" >>
                            \o [i \in 1..n |-> "Data"])
       /\ squatPhases = InitialSquatPhases
       /\ modeRef = "tracking"
       /\ measurementCountRef = REQUIRED_CALIBRATION_SAMPLES + n
       /\ view = [mode |-> "tracking", measurements |-> timeline,
                  measurementsId |-> n + 1, calibration |-> RestPose]
       /\ connectClosure = None
       /\ motionListener = Some([calibration |-> stale])
       /\ disconnectListeners = << [measurements |-> << >>, measurementsId |-> 0] >>
       /\ connected = TRUE
       /\ beep = 0
       /\ measurementsId = n + 1
       /\ irregular = 0
       /\ tracked = n
       /\ sessions = 1
       /\ appended = << >>

AnalysisNext ==
  \/ Render
  \/ Disconnect
  \/ StopTracking

SpecAnalysis == AnalysisInit /\ [][AnalysisNext]_vars

----------------------------------------------------------------------------
(* The diagnostic log on its own: from the initial state, any sequence of  *)
(* calls of addDebugMessage, the messages handed over being recorded in    *)
(* `appended`.                                                             *)

MaxAppends == 8       \* calls of addDebugMessage

LogTexts == { "Calibration sample", "Data", "Error parsing data" }

AppendMessage ==
  \E m \in LogTexts :
    /\ Len(appended) < MaxAppends
    /\ debugMessages' = addDebugMessage(debugMessages, m)
    /\ appended' = Append(appended, m)
    /\ UNCHANGED << mode, calibration, calibrationSamples, measurements,
                    current, finalStats, error, calibrationProgress,
                    squatPhases, modeRef, measurementCountRef, view,
                    connectClosure, motionListener, disconnectListeners,
                    connected, beep, measurementsId, irregular, tracked,
                    sessions >>

LogNext == AppendMessage

SpecLog == Init /\ [][LogNext]_vars

----------------------------------------------------------------------------
(* Claims *)

IsPrefix(s, t) == Len(s) <= Len(t) /\ SubSeq(t, 1, Len(s)) = s

Last(s) == s[Len(s)]

\* A delivery of payload p that appends a measurement to the timeline.
Appends(p) ==
  /\ p.kind = "sample"
  /\ Len(measurements') = Len(measurements) + 1
  /\ IsPrefix(measurements, measurements')
  /\ MotionData(p)

\* C1: in every session, each measurement appended to the timeline while
\* tracking equals, per axis, the raw sample minus the baseline computed by
\* the calibration of that same session.
C1_DeviationFromSessionBaseline ==
  [][\A p \in Payloads :
       (Appends(p) /\ mode = "tracking")
         => /\ Last(measurements').x = p.data.x - calibration.x
            /\ Last(measurements').y = p.data.y - calibration.y
            /\ Last(measurements').z = p.data.z - calibration.z]_vars

\* C2: the i-th measurement of the timeline (i = 0..n-1) has timestamp
\* i x 0.05, so the first measurement of every session has timestamp 0.
C2_TimestampIsIndexTimesPeriod ==
  \A i \in 1..Len(measurements) :
    measurements[i].timestamp = (i - 1) * SAMPLE_PERIOD

\* A delivery of a decodable sample while the mode and the dispatcher's
\* reference to it are both Calibrating.
CalibratingDelivery(p) ==
  /\ p.kind = "sample"
  /\ mode = "calibrating"
  /\ modeRef = "calibrating"
  /\ MotionData(p)

C4_BaselineIsMeanOfTen ==
  mode = "tracking"
    => /\ Len(calibrationSamples) = 10
       /\ calibration = Vec(SumX(calibrationSamples) \div 10,
                            SumY(calibrationSamples) \div 10,
                            SumZ(calibrationSamples) \div 10)

C6_DisconnectFinalizesCurrentTimeline ==
  [][(Disconnect /\ mode = "tracking" /\ measurements # << >>)
       => /\ mode' = "idle"
          /\ error' # None
          /\ finalStats' = Some(StatsOf(measurements))]_vars

\* The interior strict local minima of z (1-based indices).
Candidates(data) ==
  { i \in 2..(Len(data) - 1) :
      data[i].z < data[i - 1].z /\ data[i].z < data[i + 1].z }

\* The first candidate whose magnitude no other candidate exceeds.
FirstDeepest(data) ==
  CHOOSE i \in Candidates(data) :
    /\ \A j \in Candidates(data) : Abs(data[j].z) <= Abs(data[i].z)
    /\ \A j \in Candidates(data) : j < i => Abs(data[j].z) < Abs(data[i].z)

\* A stop request has analysed the timeline (under SpecAnalysis nothing else
\* sets FinalStats, and the timeline does not change).
Analysed == finalStats # None /\ measurements = view.measurements

\* C7 as claimed: for every timeline of at least 3 measurements with an
\* interior strict local minimum of z, the analysis returns the first such
\* minimum of largest magnitude: maxDepth its signed z, bottomTimestamp its
\* timestamp.
C7_Original ==
  (Analysed /\ Len(measurements) >= 3 /\ Candidates(measurements) # {})
    => squatPhases =
         [bottomPoint |-> Some(measurements[FirstDeepest(measurements)].timestamp),
          maxDepth |-> measurements[FirstDeepest(measurements)].z]

\* C7 as amended: the same, provided that minimum has z # 0; when no
\* interior strict local minimum exists or all of them have z = 0, the
\* result is {none, 0}.
C7_FirstDeepestNonZeroMinimum ==
  (Analysed /\ Len(measurements) >= 3)
    => IF Candidates(measurements) = {}
          \/ measurements[FirstDeepest(measurements)].z = 0
       THEN squatPhases = [bottomPoint |-> None, maxDepth |-> 0]
       ELSE squatPhases =
              [bottomPoint |-> Some(measurements[FirstDeepest(measurements)].timestamp),
               maxDepth |-> measurements[FirstDeepest(measurements)].z]

\* C7 witness: the timeline z = [0, -1, -5, -2, 0] analysed, the bottom at
\* its third measurement with depth -5.
C7_Witness ==
  /\ Analysed
  /\ Len(measurements) = 5
  /\ [i \in 1..5 |-> measurements[i].z] = << 0, -1000, -5000, -2000, 0 >>
  /\ squatPhases = [bottomPoint |-> Some(measurements[3].timestamp),
                    maxDepth |-> -5000]
  /\ measurements[3].timestamp = measurements[1].timestamp + 2 * SAMPLE_PERIOD

\* C8: analysing a timeline of fewer than 3 measurements yields the result
\* {bottomTimestamp: none, maxDepth: 0}.  (Stated of the analysis a stop
\* request would run on the rendered timeline.)
C8_ShortTimelineYieldsDefault ==
  (view.mode = "tracking" /\ Len(view.measurements) \in 1..2)
    => detectSquatPhases(view.measurements) = Some([bottomPoint |-> None, maxDepth |-> 0])

\* What the analysis of timeline tl is claimed to expose.
AnalysisOf(tl) ==
  IF Len(tl) < 3 THEN [bottomPoint |-> None, maxDepth |-> 0]
  ELSE ScanSquat(tl, 2, [bottomPoint |-> None, maxDepth |-> 0])

\* C9: after a session end, the exposed SquatPhaseResult equals the analysis
\* of that session's timeline; with fewer than 3 measurements it is
\* {none, 0}, not the result of an earlier session.  (Stated of the state a
\* stop request leaves, for the non-empty timeline its handler holds.)
C9_ExposedResultIsOfThisSession ==
  (beep = 880 /\ view.measurements # << >>)
    => squatPhases = AnalysisOf(view.measurements)

\* sqrt(x^2 + z^2) of measurement i, and the sum over the first n.
Hypot(m) == Sqrt(m.x * m.x + m.z * m.z)

RECURSIVE HypotSum(_, _)
HypotSum(ms, n) == IF n = 0 THEN 0 ELSE HypotSum(ms, n - 1) + Hypot(ms[n])

HypotMax(ms) ==
  CHOOSE d \in { Hypot(ms[i]) : i \in 1..Len(ms) } :
    \A i \in 1..Len(ms) : Hypot(ms[i]) <= d

\* C10: for every non-empty timeline, finalize yields maxDeviation = the
\* maximum and avgDeviation = the arithmetic mean of sqrt(x^2 + z^2) over
\* all measurements (y excluded), sampleCount = the timeline length and
\* duration = the timestamp of the last measurement, each number in the two
\* decimals the stats carry.
C10_StatsOfTimeline ==
  (Analysed /\ measurements # << >>)
    => finalStats =
         Some([maxDeviation |-> toFixed2(HypotMax(measurements)),
               avgDeviation |-> toFixed2(HypotSum(measurements, Len(measurements))
                                           \div Len(measurements)),
               duration |-> toFixed2(measurements[Len(measurements)].timestamp),
               samples |-> Len(measurements)])

\* C10 witness: [{x:3, z:4}, {x:0, z:0}] finalized as 5.00, 2.50 and 2.
C10_Witness ==
  /\ Analysed
  /\ Len(measurements) = 2
  /\ measurements[1].x = 3000 /\ measurements[1].z = 4000 /\ measurements[1].y # 0
  /\ measurements[2].x = 0 /\ measurements[2].z = 0
  /\ finalStats[1].maxDeviation = 500
  /\ finalStats[1].avgDeviation = 250
  /\ finalStats[1].samples = 2
  /\ finalStats[1].duration = toFixed2(measurements[2].timestamp)

\* C11: a stop or a disconnect while the timeline is empty moves the mode to
\* Idle and leaves FinalStats and SquatPhaseResult exactly as they were.
C11_EmptyTimelineEndChangesNoResult ==
  [][((StopTracking \/ Disconnect)
        /\ measurements = << >> /\ view.measurements = << >>)
       => /\ mode' = "idle"
          /\ finalStats' = finalStats
          /\ squatPhases' = squatPhases]_vars

\* The edges of the session mode C13 lists.
ModeEdge(from, to) ==
  \/ from = "idle" /\ to = "connecting"
  \/ from = "connecting" /\ to = "calibrating"
  \/ from = "calibrating" /\ to = "tracking"
  \/ to = "idle"

\* C13: the mode changes only along Idle -> Connecting, Connecting ->
\* Calibrating, Calibrating -> Tracking, Tracking -> Idle and any -> Idle;
\* in particular never from Idle to Tracking.  (Stated of the steps of the
\* sample, stop, disconnect and connection-failure events; the two steps of
\* a start request are left aside.)
C13_ModeFollowsEdges ==
  [][(mode' # mode /\ ~ConnectStart /\ ~ConnectReady)
       => ModeEdge(mode, mode')]_vars

\* C14: a start request clears the calibration samples, the timeline and the
\* calibration progress, so that in Connecting and Calibrating mode the
\* timeline is empty.
C14_StartClearsTimeline ==
  /\ [][ConnectStart => /\ calibrationSamples' = << >>
                        /\ measurements' = << >>
                        /\ calibrationProgress' = 0]_vars
  /\ [](mode \in {"connecting", "calibrating"} => measurements = << >>)

\* C15: a sample delivered while the mode is Idle or Connecting changes
\* neither the timeline, the calibration buffer, the timestamp counter nor
\* the current deviation, whether or not the mode reference was synchronized.
C15_SampleAfterEndIgnored ==
  [][\A p \in Payloads :
       (p.kind = "sample" /\ mode \in {"idle", "connecting"} /\ MotionData(p))
         => UNCHANGED << measurements, calibrationSamples, measurementCountRef,
                         current >>]_vars

\* C17: no calibration baseline is present in Idle, Connecting or
\* Calibrating mode: the one of a session is discarded when the session
\* returns to Idle.  (No baseline = the initial {0, 0, 0}.)
C17_NoBaselineOutsideTracking ==
  mode \in {"idle", "connecting", "calibrating"} => calibration = Vec(0, 0, 0)

\* C18: every Tracking -> Idle transition, by a stop request or by a
\* disconnect event, emits the cue of frequency 880.
C18_EndOfTrackingBeeps880 ==
  [][(mode = "tracking" /\ mode' = "idle") => beep' = 880]_vars

\* C19: a cue is emitted when calibration completes, at the Calibrating ->
\* Tracking transition.
C19_CalibrationCompleteBeeps ==
  [][(mode = "calibrating" /\ mode' = "tracking") => beep' # 0]_vars

\* A payload that does not decode into three numeric fields.
Malformed(p) == p.kind \in {"garbage", "partial"}

\* C16: a payload that cannot be decoded into three numeric fields x, y, z
\* is dropped: the calibration buffer and count, the timeline, the
\* timestamp counter and the mode are unchanged, and a diagnostic entry and
\* a session error are recorded.  (Stated of deliveries while calibrating or
\* tracking with the mode reference synchronized.)
C16_MalformedPayloadDropped ==
  [][\A p \in Payloads :
       (Malformed(p) /\ mode \in {"calibrating", "tracking"} /\ modeRef = mode
          /\ MotionData(p))
         => /\ UNCHANGED << calibrationSamples, calibrationProgress,
                            measurements, measurementCountRef, mode >>
            /\ error' = Some("Error parsing data")
            /\ Last(debugMessages') = "Error parsing data"]_vars

\* C20: within one tracking phase the timestamps of consecutive timeline
\* measurements are strictly increasing and differ by exactly one sample
\* period, whatever mix of well-formed and malformed samples is delivered.
C20_ConstantTimestampStep ==
  \A i \in 1..(Len(measurements) - 1) :
    measurements[i + 1].timestamp = measurements[i].timestamp + SAMPLE_PERIOD

\* C20 witness: two measurements of a tracking phase with a rejected payload
\* delivered between them.
C20_Witness ==
  /\ mode = "tracking"
  /\ Len(measurements) >= 2
  /\ Len(debugMessages) >= 3
  /\ SubSeq(debugMessages, Len(debugMessages) - 2, Len(debugMessages))
       = << "Data", "Error parsing data", "Data" >>
  /\ Last(measurements).timestamp > measurements[1].timestamp

\* C12: after any sequence of n appends the diagnostic log holds exactly the
\* min(n, 5) most recently appended messages, in arrival order; its length
\* never exceeds 5.
C12_LogHoldsLastFive ==
  LET n == Len(appended)
      k == IF n < 5 THEN n ELSE 5
  IN /\ Len(debugMessages) <= 5
     /\ debugMessages = SubSeq(appended, n - k + 1, n)

\* C12 witness: eight messages appended, the log holding the last five, the
\* first of which differs from the first message appended.
C12_Witness ==
  /\ Len(appended) = 8
  /\ debugMessages = SubSeq(appended, 4, 8)
  /\ debugMessages[1] # appended[1]

\* C21: when the calibration sample count reaches 10 and the baseline is
\* computed, the calibration buffer is emptied, so that the buffer never
\* holds more than 10 samples and no second baseline is computed from it.
C21_BufferDiscardedOnCompletion ==
  /\ [][(mode = "calibrating" /\ mode' = "tracking")
          => calibrationSamples' = << >>]_vars
  /\ [](Len(calibrationSamples) <= 10)

\* C22: from the moment calibration completes until the session returns to
\* Idle, the baseline never changes and the timeline is never reset again.
C22_BaselineCreatedOnce ==
  [][(mode = "tracking" /\ mode' = "tracking")
       => /\ calibration' = calibration
          /\ IsPrefix(measurements, measurements')
          /\ measurementsId' \in {measurementsId, measurementsId + 1}
          /\ (measurementsId' # measurementsId) => measurements' # << >>]_vars

\* C23: one sample delivery is dispatched under the one mode value the
\* dispatcher holds when it is received: it either adds one calibration
\* sample, or appends one measurement to the timeline, or changes neither,
\* and never does both.
C23_OneBranchPerDelivery ==
  [][\A p \in Payloads :
       MotionData(p)
         => LET addsCalibration ==
                  /\ Len(calibrationSamples') = Len(calibrationSamples) + 1
                  /\ IsPrefix(calibrationSamples, calibrationSamples')
                addsMeasurement ==
                  /\ Len(measurements') = Len(measurements) + 1
                  /\ IsPrefix(measurements, measurements')
            IN \/ /\ modeRef = "calibrating"
                  /\ addsCalibration
                  /\ ~addsMeasurement
               \/ /\ modeRef = "tracking"
                  /\ addsMeasurement
                  /\ calibrationSamples' = calibrationSamples
               \/ /\ calibrationSamples' = calibrationSamples
                  /\ measurements' = measurements]_vars

\* C23 witness: a delivery raced with the calibration-complete transition;
\* it went to the calibration buffer and the timeline got nothing.
C23_Witness ==
  /\ mode = "tracking"
  /\ modeRef = "calibrating"
  /\ Len(calibrationSamples) = 11
  /\ measurements = << >>
  /\ measurementCountRef = 11

\* C25: while the mode is Connecting, Calibrating or Tracking, processing a
\* raw sample leaves FinalStats and SquatPhaseResult unchanged; the two
\* change only as part of a stop request or a disconnect event.
C25_ResultsChangeOnlyAtEnd ==
  [][/\ \A p \in Payloads :
          (mode \in {"connecting", "calibrating", "tracking"} /\ MotionData(p))
            => UNCHANGED << finalStats, squatPhases >>
     /\ (finalStats' # finalStats \/ squatPhases' # squatPhases)
          => (StopTracking \/ Disconnect)]_vars

\* C25 witness: a second session is tracking and has appended a measurement
\* while the results of the first session are still exposed.
C25_Witness ==
  /\ mode = "tracking"
  /\ sessions = 2
  /\ measurements # << >>
  /\ finalStats # None
  /\ squatPhases.bottomPoint # None
  /\ finalStats[1].samples > Len(measurements)

\* The measurement the exposed result points at (timestamps are distinct).
BottomIndex ==
  CHOOSE i \in 1..Len(measurements) :
    measurements[i].timestamp = squatPhases.bottomPoint[1]

\* C24: the reported bottom of squat is the deepest local minimum of z:
\* among all interior strict local minima of the timeline, the one
\* selected has the lowest z value.  (Stated of the results that report a
\* bottom.)
C24_BottomIsLowestMinimum ==
  (Analysed /\ squatPhases.bottomPoint # None)
    => /\ BottomIndex \in Candidates(measurements)
       /\ \A j \in Candidates(measurements) :
            measurements[BottomIndex].z <= measurements[j].z

\* C26: during Tracking the timeline only grows: each well-formed sample
\* delivered in Tracking appends exactly one measurement at the end, and the
\* existing measurements are neither changed nor removed.
C26_TimelineGrowsByOne ==
  [][/\ \A p \in Payloads :
          (p.kind = "sample" /\ mode = "tracking" /\ MotionData(p))
            => /\ Len(measurements') = Len(measurements) + 1
               /\ IsPrefix(measurements, measurements')
     /\ (mode = "tracking" /\ mode' = "tracking")
          => IsPrefix(measurements, measurements')]_vars

\* C27: every stop request issued in Tracking and every disconnect leaves
\* the session in Idle, and the session stays Idle until the next start
\* request.
C27_IdleUntilNextStart ==
  [][/\ (StopTracking \/ Disconnect) => mode' = "idle"
     /\ (mode = "idle" /\ mode' # "idle") => (ConnectStart \/ ConnectReady)]_vars

\* C28: a session ended by the user's stop request, with no transport
\* failure, ends with no session error recorded.
C28_StopRecordsNoError ==
  [][(StopTracking /\ error = None) => error' = None]_vars

\* C29: a disconnect event is handled exactly once, by the handler the
\* current session registered, however many sessions ran before on the
\* device: one transition to Idle, at most one finalization.
C29_DisconnectHandledOnce ==
  [][Disconnect
       => Commit(handleDisconnect(Store, Last(disconnectListeners)))]_vars

\* C30: the squat analysis result has bottomTimestamp = none if and only if
\* maxDepth = 0; a reported maxDepth is never 0 and is the z value of the
\* measurement whose timestamp is reported, which is neither the first nor
\* the last measurement.
C30_ResultIsConsistent ==
  /\ squatPhases.bottomPoint = None <=> squatPhases.maxDepth = 0
  /\ squatPhases.bottomPoint # None
       => \E i \in 2..(Len(measurements) - 1) :
            /\ measurements[i].timestamp = squatPhases.bottomPoint[1]
            /\ measurements[i].z = squatPhases.maxDepth

\* C30 witness: a bottom reported at the second of three measurements, with
\* a negative depth.
C30_Witness ==
  /\ Analysed
  /\ Len(measurements) = 3
  /\ squatPhases.bottomPoint = Some(measurements[2].timestamp)
  /\ squatPhases.maxDepth = measurements[2].z
  /\ squatPhases.maxDepth < 0

====
